---- MODULE Spec2Model ----
(***************************************************************************)
(* Model of the stellar-structure integrator of                            *)
(* 02_stellar_structure/stellar_structure.ipynb: the derivative functions, *)
(* the equation of state, the opacity and power-density laws, the          *)
(* temperature-gradient selector T_deriv and the driver make_star.         *)
(*                                                                         *)
(* Numbers.  The notebook computes in numpy float64.  A float is modelled  *)
(* as a record [cls, v]: cls is "fin" (v an integer in model units),       *)
(* "pinf", "ninf" or "nan" (v = 0).  Finite arithmetic is integer          *)
(* arithmetic that rounds a quotient toward zero and overflows to an       *)
(* infinity beyond FMax; the special values follow IEEE 754 as numpy       *)
(* applies it (x/0 is an infinity, 0/0 and inf*0 and inf-inf are NaN,      *)
(* every ordered comparison with NaN is false).  Signed zeros are not      *)
(* distinguished.                                                          *)
(***************************************************************************)
EXTENDS Integers, Sequences, FiniteSets

\* ------------------------------------------------------------ bounds
\* Largest finite magnitude of a model float (float64 has 1.8e308).
FMax == 1000000000

\* Number of radial steps (the notebook uses 100000).
nstep == 6

\* Mass fractions X and Y are carried as integer numerators over FracDen.
FracDen == 10

\* ------------------------------------------------------ float64 values
Fin(v) == [cls |-> "fin", v |-> v]
PInf   == [cls |-> "pinf", v |-> 0]
NInf   == [cls |-> "ninf", v |-> 0]
NaN    == [cls |-> "nan", v |-> 0]

IsFin(x) == x.cls = "fin"
IsNaN(x) == x.cls = "nan"

IAbs(n) == IF n < 0 THEN -n ELSE n

\* -1, 0 or 1; a NaN has no sign and is never asked for one.
Sgn(x) ==
  CASE x.cls = "pinf" -> 1
    [] x.cls = "ninf" -> -1
    [] OTHER -> IF x.v > 0 THEN 1 ELSE IF x.v < 0 THEN -1 ELSE 0

InfOf(s) == IF s > 0 THEN PInf ELSE NInf

\* A finite result, or the infinity it overflows to.
Round(n) == IF n > FMax THEN PInf ELSE IF n < -FMax THEN NInf ELSE Fin(n)

FNeg(x) ==
  CASE x.cls = "fin"  -> Fin(-x.v)
    [] x.cls = "pinf" -> NInf
    [] x.cls = "ninf" -> PInf
    [] OTHER -> NaN

FAbs(x) ==
  CASE x.cls = "fin"  -> Fin(IAbs(x.v))
    [] x.cls = "nan"  -> NaN
    [] OTHER -> PInf

FAdd(x, y) ==
  CASE IsNaN(x) \/ IsNaN(y) -> NaN
    [] IsFin(x) /\ IsFin(y) -> Round(x.v + y.v)
    [] IsFin(x) -> y
    [] IsFin(y) -> x
    [] OTHER -> IF x.cls = y.cls THEN x ELSE NaN

FMul(x, y) ==
  CASE IsNaN(x) \/ IsNaN(y) -> NaN
    [] IsFin(x) /\ IsFin(y) ->
         IF x.v = 0 \/ y.v = 0 THEN Fin(0)
         ELSE IF IAbs(x.v) > FMax \div IAbs(y.v) THEN InfOf(Sgn(x) * Sgn(y))
         ELSE Fin(x.v * y.v)
    [] OTHER -> IF Sgn(x) = 0 \/ Sgn(y) = 0 THEN NaN ELSE InfOf(Sgn(x) * Sgn(y))

FDiv(x, y) ==
  CASE IsNaN(x) \/ IsNaN(y) -> NaN
    [] IsFin(x) /\ IsFin(y) ->
         IF y.v = 0 THEN (IF x.v = 0 THEN NaN ELSE InfOf(Sgn(x)))
         ELSE Fin(Sgn(x) * Sgn(y) * (IAbs(x.v) \div IAbs(y.v)))
    [] IsFin(x) -> Fin(0)
    [] IsFin(y) -> InfOf(Sgn(x) * (IF Sgn(y) < 0 THEN -1 ELSE 1))
    [] OTHER -> NaN

\* x <= y and x > y of float64: both false when either side is NaN.
Rank(x) ==
  CASE x.cls = "pinf" -> FMax + 1
    [] x.cls = "ninf" -> -(FMax + 1)
    [] OTHER -> x.v

FLe(x, y) == ~IsNaN(x) /\ ~IsNaN(y) /\ Rank(x) <= Rank(y)
FGt(x, y) == ~IsNaN(x) /\ ~IsNaN(y) /\ Rank(x) > Rank(y)

\* The integer cube root: the q with q^3 <= n < (q + 1)^3.  1290^3 is the
\* largest cube below 2^31, above every finite magnitude.
ICbrt(n) ==
  CHOOSE q \in 0..1290 : q * q * q <= n /\ n < (q + 1) * (q + 1) * (q + 1)

RECURSIVE IPow(_, _)
IPow(b, e) == IF e = 0 THEN 1 ELSE b * IPow(b, e - 1)

\* x**(1./3.) and x**(2./3.): numpy returns NaN for a negative base.
FPow13(x) ==
  CASE x.cls = "pinf" -> PInf
    [] x.cls = "fin" /\ x.v >= 0 -> Fin(ICbrt(x.v))
    [] OTHER -> NaN

FPow23(x) == FPow13(FMul(x, x))

\* ------------------------------------------- physical constants (CGS)
\* Small integers stand for the notebook's values (G = 6.7e-8, c = 3.0e10,
\* k = 1.4e-16, a = 7.6e-15, sigmaT = 6.7e-25, mH = 1.7e-24): they keep the
\* quantities of a run within FMax and let runs end in every way the driver
\* can end.
G == 2
c == 1
k == 200
a == 2
sigmaT == 400
mH == 5
\* np.pi
Pi == 3
\* gamma = 5.0 / 3.0 is GammaNum / GammaDen.
GammaNum == 5
GammaDen == 3
\* Gamow energy
EG == 40000
\* The constant factors of calc_epsilon:
\* 2**(5/3) * sqrt(2)/sqrt(3) / (mH**2 * sqrt(mu)) * Q * S0 * EG**(1/6).
EpsCoef == 100000
\* The base of np.exp.
ExpBase == 3
\* rmax = 1.0e12 cm; the model's unit of length is half a grid step.
rmax == 2 * (nstep - 1)

\* x * np.exp(z): exp(-inf) is 0, exp(inf) is inf, and exp of a large
\* negative z underflows to 0.
FMulExp(x, z) ==
  CASE z.cls = "nan"  -> NaN
    [] z.cls = "ninf" -> FMul(x, Fin(0))
    [] z.cls = "pinf" -> FMul(x, PInf)
    [] z.v <= 0 -> IF -z.v > 18 THEN FMul(x, Fin(0))
                   ELSE FDiv(x, Fin(IPow(ExpBase, -z.v)))
    [] OTHER -> IF z.v > 18 THEN FMul(x, PInf)
                ELSE FMul(x, Round(IPow(ExpBase, z.v)))

\* ------------------------------------------- differential equations
FourPi == FMul(Fin(4), Fin(Pi))

\* M_deriv with the sign turned: mass is taken away outwards.
M_derivNeg(rx, rhox) == FNeg(FMul(FMul(FourPi, FMul(rx, rx)), rhox))

\* dM/dr = 4 pi r^2 rho
M_deriv(rx, rhox) == FMul(FMul(FourPi, FMul(rx, rx)), rhox)

\* dP/dr = -G M rho / r^2
P_deriv(rx, Mx, rhox) ==
  FDiv(FMul(FMul(FNeg(Fin(G)), Mx), rhox), FMul(rx, rx))

\* dT/dr = -3 L kappa rho / (4 pi r^2 4 a c T^3)
T_deriv_rad(rx, Lx, kappax, rhox, Tx) ==
  FNeg(FDiv(FMul(FMul(FMul(Fin(3), Lx), kappax), rhox),
            FMul(FMul(FourPi, FMul(rx, rx)),
                 FMul(FMul(FMul(Fin(4), Fin(a)), Fin(c)),
                      FMul(FMul(Tx, Tx), Tx)))))

\* dL/dr = 4 pi r^2 rho epsilon
L_deriv(rx, rhox, epsilonx) ==
  FMul(FMul(FMul(FourPi, FMul(rx, rx)), rhox), epsilonx)

\* rho = mbar / (k T) * P
calc_rho(Px, Tx, mbarx) == FDiv(FMul(mbarx, Px), FMul(Fin(k), Tx))

\* calc_kappa without the dependence on X.
calc_kappaFlat(Xx) == FDiv(Fin(sigmaT), Fin(2 * mH))

\* kappa = sigmaT / (2 mH) * (1 + X)
calc_kappa(Xx) ==
  FDiv(FMul(Fin(sigmaT), Fin(FracDen + Xx)), Fin(2 * mH * FracDen))

\* epsilon = coef * rho X^2 / (k T)^(2/3) * exp(-3 (EG / (4 k T))^(1/3))
calc_epsilon(rhox, Tx, Xx) ==
  LET kT == FMul(Fin(k), Tx)
      t1 == FDiv(FMul(Fin(EpsCoef), FMul(rhox, Fin(Xx * Xx))),
                 Fin(FracDen * FracDen))
      t2 == FDiv(t1, FPow23(kT))
      z  == FMul(Fin(-3), FPow13(FDiv(Fin(EG), FMul(Fin(4), kT))))
  IN  FMulExp(t2, z)

\* The threshold for convection: (gamma - 1) / gamma * T / P * dP/dr.
T_deriv_conv(Tx, Px, dPdrx) ==
  FDiv(FMul(FMul(Fin(GammaNum - GammaDen), Tx), dPdrx),
       FMul(Fin(GammaNum), Px))

\* Select the other way round: the steeper candidate wins.
SelectSteeper(dTdr_rad, dTdr_conv) ==
  IF FGt(FAbs(dTdr_rad), FAbs(dTdr_conv)) THEN dTdr_rad ELSE dTdr_conv

\* Select with >= for >: convection already at equal magnitudes.
SelectGe(dTdr_rad, dTdr_conv) ==
  IF FGt(FAbs(dTdr_rad), FAbs(dTdr_conv)) \/ FAbs(dTdr_rad) = FAbs(dTdr_conv)
  THEN dTdr_conv ELSE dTdr_rad

\* The choice T_deriv makes between its two candidates.
Select(dTdr_rad, dTdr_conv) ==
  IF FGt(FAbs(dTdr_rad), FAbs(dTdr_conv)) THEN dTdr_conv ELSE dTdr_rad

T_deriv(rx, Lx, kappax, rhox, Tx, Px, dPdrx) ==
  Select(T_deriv_rad(rx, Lx, kappax, rhox, Tx), T_deriv_conv(Tx, Px, dPdrx))

\* ---------------------------------------------------------- make_star
\* '{:0.3e}'.format(x): x rounded to four significant digits, ties to even;
\* a NaN or an infinity prints as itself.
RECURSIVE Scale3e(_, _)
Scale3e(n, q) == IF n \div q < 10000 THEN q ELSE Scale3e(n, q * 10)

RoundTo(n, q) ==
  LET lo == n \div q
      rem == n % q
      up == 2 * rem > q \/ (2 * rem = q /\ lo % 2 = 1)
  IN  (IF up THEN lo + 1 ELSE lo) * q

Format3e(x) ==
  IF IsFin(x)
  THEN Fin(Sgn(x) * RoundTo(IAbs(x.v), Scale3e(IAbs(x.v), 1)))
  ELSE x

\* np.linspace(0, rmax, nstep)[j]
Linspace(j) ==
  IF j = nstep - 1 THEN Fin(rmax)
  ELSE FMul(Fin(j), FDiv(Fin(rmax), Fin(nstep - 1)))

\* Shift that leaves the array where np.linspace put it.
ShiftNone(x, step) == x

\* Shift down by half a step.
ShiftDown(x, step) == FAdd(x, FNeg(FDiv(step, Fin(2))))

\* r + dr / 2.0, for one entry of r.
Shift(x, step) == FAdd(x, FDiv(step, Fin(2)))

\* np.zeros(r.shape)
Zeros == [j \in 0..(nstep - 1) |-> Fin(0)]

\* A name that is not bound yet.
Unbound == [j \in {} |-> Fin(0)]

\* Slice that cuts nothing: the whole array is handed out.
SliceWhole(arr, n) == arr

\* arr[0:n]
Slice(arr, n) ==
  [j \in {m \in DOMAIN arr : m < n} |-> arr[j]]

\* mbar = mH * 2.0 / (1.0 + 3.0 * X + 0.5 * Y), with X and Y over FracDen.
calc_mbar(Xx, Yx) ==
  FDiv(Fin(mH * 2 * 2 * FracDen), Fin(2 * FracDen + 6 * Xx + Yx))

\* SurfaceTest without the density: only pressure and temperature end the loop.
SurfaceTestNoRho(Pa, Ta, rhoa, j) ==
  FLe(Pa[j], Fin(0)) \/ FLe(Ta[j], Fin(0))

\* SurfaceTest with < for <=: a value of exactly zero does not end the loop.
SurfaceTestStrict(Pa, Ta, rhoa, j) ==
  \/ FGt(Fin(0), Pa[j]) \/ FGt(Fin(0), Ta[j]) \/ FGt(Fin(0), rhoa[j])

\* SurfaceTest that also ends the loop once the temperature has dropped below
\* its central value, with all three quantities still positive.
SurfaceTestCooling(Pa, Ta, rhoa, j) ==
  \/ FLe(Pa[j], Fin(0)) \/ FLe(Ta[j], Fin(0)) \/ FLe(rhoa[j], Fin(0))
  \/ FGt(Ta[0], Ta[j])

\* SurfaceTest as "not all three positive", which a NaN also meets.
SurfaceTestNotPositive(Pa, Ta, rhoa, j) ==
  ~(FGt(Pa[j], Fin(0)) /\ FGt(Ta[j], Fin(0)) /\ FGt(rhoa[j], Fin(0)))

\* The test that ends the loop at step j.
SurfaceTest(Pa, Ta, rhoa, j) ==
  FLe(Pa[j], Fin(0)) \/ FLe(Ta[j], Fin(0)) \/ FLe(rhoa[j], Fin(0))

\* The inputs of a call.  T0 and P0 are floats; X and Y are numerators over
\* FracDen (7 is 0.7).  The sets hold valid and invalid boundary values and
\* compositions: make_star takes any.
T0Values == {Fin(-5), Fin(0), Fin(10), Fin(20), Fin(40), Fin(80)}
P0Values == {Fin(-300), Fin(0), Fin(100), Fin(10000), Fin(30000), Fin(100000)}
XValues == {-1, 0, 7, 9, 12}
YValues == {3, 9}

VARIABLES
  pc,        \* where make_star is: "call", "loop", "report", "done"
  T0, P0, X, Y,
  mbar, dr, r, M, P, T, L, rho, kappa, epsilon,
  i,         \* the loop variable; 0 until the for statement binds it
  printed,   \* the three values make_star prints
  ret,       \* the tuple make_star returns
  tdArgs,    \* the arguments of a direct call of T_deriv
  tdRes,     \* its result
  frames,    \* the local names of each of two calls of make_star in flight
  heap       \* the arrays they allocated, by owner

vars == <<pc, T0, P0, X, Y, mbar, dr, r, M, P, T, L, rho, kappa, epsilon,
          i, printed, ret, tdArgs, tdRes, frames, heap>>

NoArgs == [r |-> Fin(0), L |-> Fin(0), kappa |-> Fin(0), rho |-> Fin(0),
           T |-> Fin(0), P |-> Fin(0), dPdr |-> Fin(0)]

NoTuple == [r |-> Unbound, M |-> Unbound, P |-> Unbound, T |-> Unbound,
            L |-> Unbound, rho |-> Unbound, kappa |-> Unbound,
            epsilon |-> Unbound]

NoPrint == <<>>

Init ==
  /\ pc = "call"
  /\ T0 \in T0Values
  /\ P0 \in P0Values
  /\ X \in XValues
  /\ Y \in YValues
  /\ mbar = Fin(0)
  /\ dr = Fin(0)
  /\ r = Unbound /\ M = Unbound /\ P = Unbound /\ T = Unbound
  /\ L = Unbound /\ rho = Unbound /\ kappa = Unbound /\ epsilon = Unbound
  /\ i = 0
  /\ printed = NoPrint
  /\ ret = NoTuple
  /\ tdArgs = NoArgs
  /\ tdRes = Fin(0)
  /\ frames = <<>>
  /\ heap = <<>>

\* make_star up to the loop: the grid, the zero arrays, the first entries.
Setup ==
  /\ pc = "call"
  /\ LET mb   == calc_mbar(X, Y)
         lin  == [j \in 0..(nstep - 1) |-> Linspace(j)]
         step == FAdd(lin[1], FNeg(lin[0]))
         rho0 == calc_rho(P0, T0, mb)
     IN  /\ mbar' = mb
         /\ dr' = step
         /\ r' = [j \in 0..(nstep - 1) |-> Shift(lin[j], step)]
         /\ M' = [Zeros EXCEPT ![0] = Fin(0)]
         /\ P' = [Zeros EXCEPT ![0] = P0]
         /\ T' = [Zeros EXCEPT ![0] = T0]
         /\ L' = [Zeros EXCEPT ![0] = Fin(0)]
         /\ rho' = [Zeros EXCEPT ![0] = rho0]
         /\ kappa' = [Zeros EXCEPT ![0] = calc_kappa(X)]
         /\ epsilon' = [Zeros EXCEPT ![0] = calc_epsilon(rho0, T0, X)]
  /\ pc' = "loop"
  /\ UNCHANGED <<T0, P0, X, Y, i, printed, ret, tdArgs, tdRes, frames, heap>>

\* Advance with the density recomputed mid-step: the temperature and
\* luminosity derivatives see the density of the pressure just advanced.
AdvanceMidStep(n) ==
  LET j    == n - 1
      dMdr == M_deriv(r[j], rho[j])
      dPdr == P_deriv(r[j], M[j], rho[j])
      Pn   == FAdd(P[j], FMul(dPdr, dr))
      rhoM == calc_rho(Pn, T[j], mbar)
      dTdr == T_deriv(r[j], L[j], kappa[j], rhoM, T[j], P[j], dPdr)
      dLdr == L_deriv(r[j], rhoM, epsilon[j])
  IN  [M |-> FAdd(M[j], FMul(dMdr, dr)),
       P |-> Pn,
       T |-> FAdd(T[j], FMul(dTdr, dr)),
       L |-> FAdd(L[j], FMul(dLdr, dr))]

\* The four Euler updates of step n from step n - 1.
Advance(n) ==
  LET j    == n - 1
      dMdr == M_deriv(r[j], rho[j])
      dPdr == P_deriv(r[j], M[j], rho[j])
      dTdr == T_deriv(r[j], L[j], kappa[j], rho[j], T[j], P[j], dPdr)
      dLdr == L_deriv(r[j], rho[j], epsilon[j])
  IN  [M |-> FAdd(M[j], FMul(dMdr, dr)),
       P |-> FAdd(P[j], FMul(dPdr, dr)),
       T |-> FAdd(T[j], FMul(dTdr, dr)),
       L |-> FAdd(L[j], FMul(dLdr, dr))]

\* MoreSteps of range(1, nstep - 1): the last grid point is never stepped to.
MoreStepsShort(n) == n < nstep - 2

\* Whether the for statement has another index after n.
MoreSteps(n) == n < nstep - 1

\* One iteration of the for loop: all seven entries of step i + 1, then the
\* surface test, which breaks out of the loop.
Step ==
  /\ pc = "loop"
  /\ LET n    == i + 1
         adv  == Advance(n)
         rhon == calc_rho(adv.P, adv.T, mbar)
         Mn   == [M EXCEPT ![n] = adv.M]
         Pn   == [P EXCEPT ![n] = adv.P]
         Tn   == [T EXCEPT ![n] = adv.T]
         Ln   == [L EXCEPT ![n] = adv.L]
         rhoN == [rho EXCEPT ![n] = rhon]
     IN  /\ i' = n
         /\ M' = Mn /\ P' = Pn /\ T' = Tn /\ L' = Ln
         /\ rho' = rhoN
         /\ kappa' = [kappa EXCEPT ![n] = calc_kappa(X)]
         /\ epsilon' = [epsilon EXCEPT ![n] = calc_epsilon(rhon, adv.T, X)]
         /\ pc' = IF SurfaceTest(Pn, Tn, rhoN, n) \/ ~MoreSteps(n)
                  THEN "report" ELSE "loop"
  /\ UNCHANGED <<T0, P0, X, Y, mbar, dr, r, printed, ret, tdArgs, tdRes,
                 frames, heap>>

\* Kept of arr[0:i]: the slice drops the step the loop ended at.
KeptExclusive == i

\* The number of entries make_star keeps of each array.
Kept == i + 1

\* StarIndex one step early: the summary is taken before the last step.
StarIndexPrev == i - 1

\* The index whose r, M and L make_star prints.
StarIndex == i

\* After the loop: print r_star, M_star and L_star, cut the arrays, return.
Finish ==
  /\ pc = "report"
  /\ printed' = [r_star |-> Format3e(r[StarIndex]),
                 M_star |-> Format3e(M[StarIndex]),
                 L_star |-> Format3e(L[StarIndex])]
  /\ ret' = [r |-> Slice(r, Kept), M |-> Slice(M, Kept), P |-> Slice(P, Kept),
             T |-> Slice(T, Kept), L |-> Slice(L, Kept),
             rho |-> Slice(rho, Kept), kappa |-> Slice(kappa, Kept),
             epsilon |-> Slice(epsilon, Kept)]
  /\ pc' = "done"
  /\ UNCHANGED <<T0, P0, X, Y, mbar, dr, r, M, P, T, L, rho, kappa, epsilon,
                 i, tdArgs, tdRes, frames, heap>>

Next == Setup \/ Step \/ Finish

Spec == Init /\ [][Next]_vars

\* The control flow of Next: what a step of make_star does to pc and i.
Progress ==
  \/ pc = "call" /\ pc' = "loop" /\ i' = i
  \/ pc = "loop" /\ pc' \in {"loop", "report"} /\ i' = i + 1
  \/ pc = "report" /\ pc' = "done" /\ i' = i

\* The interpreter runs the next statement of a call that has one.  Every
\* step of Next changes pc or i as Progress says and Next is enabled exactly
\* where Progress is, so this is weak fairness of Next.
SpecFair == Spec /\ WF_<<pc, i>>(Progress)

\* ------------------------------------------- T_deriv called on its own
TdValues ==
  [r : {Fin(1), Fin(3)},
   L : {Fin(0), Fin(1000), Fin(100000), PInf, NaN},
   kappa : {Fin(68)},
   rho : {Fin(1), Fin(15)},
   T : {Fin(0), Fin(10)},
   P : {Fin(0), Fin(1000)},
   dPdr : {Fin(-500), Fin(-10), Fin(0), Fin(500), NInf, NaN}]

InitTD ==
  /\ pc = "td_call"
  /\ tdArgs \in TdValues
  /\ tdRes = Fin(0)
  /\ T0 = Fin(0) /\ P0 = Fin(0) /\ X = 0 /\ Y = 0
  /\ mbar = Fin(0) /\ dr = Fin(0)
  /\ r = Unbound /\ M = Unbound /\ P = Unbound /\ T = Unbound
  /\ L = Unbound /\ rho = Unbound /\ kappa = Unbound /\ epsilon = Unbound
  /\ i = 0
  /\ printed = NoPrint
  /\ ret = NoTuple
  /\ frames = <<>>
  /\ heap = <<>>

TDerivCall ==
  /\ pc = "td_call"
  /\ tdRes' = T_deriv(tdArgs.r, tdArgs.L, tdArgs.kappa, tdArgs.rho,
                      tdArgs.T, tdArgs.P, tdArgs.dPdr)
  /\ pc' = "td_done"
  /\ UNCHANGED <<T0, P0, X, Y, mbar, dr, r, M, P, T, L, rho, kappa, epsilon,
                 i, printed, ret, tdArgs, frames, heap>>

SpecTD == InitTD /\ [][TDerivCall]_vars

\* ------------------------------------------ two calls of make_star
\* The names of the eight arrays make_star returns.
Fields == {"r", "M", "P", "T", "L", "rho", "kappa", "epsilon"}

\* The calls in flight.
Runs == {1, 2}

\* What the two calls are made with.
ParInputs ==
  {[T0 |-> Fin(20), P0 |-> Fin(30000), X |-> 7, Y |-> 3],
   [T0 |-> Fin(10), P0 |-> Fin(30000), X |-> 7, Y |-> 3],
   [T0 |-> Fin(20), P0 |-> Fin(10000), X |-> 0, Y |-> 9],
   [T0 |-> Fin(80), P0 |-> Fin(10000), X |-> 9, Y |-> 3]}

\* Owner with one set of arrays for every call, as module-level arrays
\* would be.
OwnerShared(p) == 1

\* The arrays a call works on: np.linspace and np.zeros allocate new ones
\* inside each call, and the names r, M, ..., epsilon are local to it.
Owner(p) == p

\* The local names of a call that has not run yet.
FrameOf(inp) ==
  [pc |-> "call", T0 |-> inp.T0, P0 |-> inp.P0, X |-> inp.X, Y |-> inp.Y,
   mbar |-> Fin(0), dr |-> Fin(0), i |-> 0, printed |-> NoPrint,
   ret |-> NoTuple]

\* Setup, on the names f of one call: the new values of f and of its arrays.
SetupOf(f) ==
  LET mb   == calc_mbar(f.X, f.Y)
      lin  == [j \in 0..(nstep - 1) |-> Linspace(j)]
      step == FAdd(lin[1], FNeg(lin[0]))
      rho0 == calc_rho(f.P0, f.T0, mb)
  IN  [f |-> [f EXCEPT !.pc = "loop", !.mbar = mb, !.dr = step],
       ar |-> [r |-> [j \in 0..(nstep - 1) |-> Shift(lin[j], step)],
               M |-> [Zeros EXCEPT ![0] = Fin(0)],
               P |-> [Zeros EXCEPT ![0] = f.P0],
               T |-> [Zeros EXCEPT ![0] = f.T0],
               L |-> [Zeros EXCEPT ![0] = Fin(0)],
               rho |-> [Zeros EXCEPT ![0] = rho0],
               kappa |-> [Zeros EXCEPT ![0] = calc_kappa(f.X)],
               epsilon |-> [Zeros EXCEPT ![0] = calc_epsilon(rho0, f.T0, f.X)]]]

\* Advance, on the arrays ar of one call.
AdvanceOf(f, ar, n) ==
  LET j    == n - 1
      dMdr == M_deriv(ar.r[j], ar.rho[j])
      dPdr == P_deriv(ar.r[j], ar.M[j], ar.rho[j])
      dTdr == T_deriv(ar.r[j], ar.L[j], ar.kappa[j], ar.rho[j], ar.T[j],
                      ar.P[j], dPdr)
      dLdr == L_deriv(ar.r[j], ar.rho[j], ar.epsilon[j])
  IN  [M |-> FAdd(ar.M[j], FMul(dMdr, f.dr)),
       P |-> FAdd(ar.P[j], FMul(dPdr, f.dr)),
       T |-> FAdd(ar.T[j], FMul(dTdr, f.dr)),
       L |-> FAdd(ar.L[j], FMul(dLdr, f.dr))]

\* A Python assignment: x is evaluated once, then Body sees its value.
Assign(x, Body(_)) == CHOOSE res \in {Body(v) : v \in {x}} : TRUE

\* Step, on the names and arrays of one call.
StepOf(f, ar) ==
  LET n == f.i + 1
      Stored(adv) ==
        Assign(calc_rho(adv.P, adv.T, f.mbar), LAMBDA rhon :
          [ar EXCEPT !.M[n] = adv.M, !.P[n] = adv.P, !.T[n] = adv.T,
                     !.L[n] = adv.L, !.rho[n] = rhon,
                     !.kappa[n] = calc_kappa(f.X),
                     !.epsilon[n] = calc_epsilon(rhon, adv.T, f.X)])
      Tested(arn) ==
        LET stop == SurfaceTest(arn.P, arn.T, arn.rho, n) \/ ~MoreSteps(n)
        IN  [f |-> [f EXCEPT !.i = n,
                             !.pc = IF stop THEN "report" ELSE "loop"],
             ar |-> arn]
  IN  Assign(Assign(AdvanceOf(f, ar, n), Stored), Tested)

\* Finish, on the names and arrays of one call.
FinishOf(f, ar) ==
  [f EXCEPT !.pc = "done",
            !.printed = [r_star |-> Format3e(ar.r[f.i]),
                         M_star |-> Format3e(ar.M[f.i]),
                         L_star |-> Format3e(ar.L[f.i])],
            !.ret = [n \in Fields |-> Slice(ar[n], f.i + 1)]]

InitPar ==
  /\ frames \in [Runs -> {FrameOf(inp) : inp \in ParInputs}]
  /\ heap = [p \in Runs |-> NoTuple]
  /\ pc = "par"
  /\ tdArgs = NoArgs /\ tdRes = Fin(0)
  /\ T0 = Fin(0) /\ P0 = Fin(0) /\ X = 0 /\ Y = 0
  /\ mbar = Fin(0) /\ dr = Fin(0)
  /\ r = Unbound /\ M = Unbound /\ P = Unbound /\ T = Unbound
  /\ L = Unbound /\ rho = Unbound /\ kappa = Unbound /\ epsilon = Unbound
  /\ i = 0
  /\ printed = NoPrint
  /\ ret = NoTuple

SoloVars == <<pc, T0, P0, X, Y, mbar, dr, r, M, P, T, L, rho, kappa, epsilon,
              i, printed, ret, tdArgs, tdRes>>

ParSetup(p) ==
  /\ frames[p].pc = "call"
  /\ LET nx == SetupOf(frames[p])
     IN  /\ frames' = [frames EXCEPT ![p] = nx.f]
         /\ heap' = [heap EXCEPT ![Owner(p)] = nx.ar]
  /\ UNCHANGED SoloVars

ParStep(p) ==
  /\ frames[p].pc = "loop"
  /\ LET nx == StepOf(frames[p], heap[Owner(p)])
     IN  /\ frames' = [frames EXCEPT ![p] = nx.f]
         /\ heap' = [heap EXCEPT ![Owner(p)] = nx.ar]
  /\ UNCHANGED SoloVars

ParFinish(p) ==
  /\ frames[p].pc = "report"
  /\ frames' = [frames EXCEPT ![p] = FinishOf(frames[p], heap[Owner(p)])]
  /\ UNCHANGED heap
  /\ UNCHANGED SoloVars

NextPar == \E p \in Runs : ParSetup(p) \/ ParStep(p) \/ ParFinish(p)

SpecPar == InitPar /\ [][NextPar]_vars

\* ------------------------------- a driver that appends, beside make_star
\* The same call made of both drivers.
BothInputs ==
  ParInputs \cup
  {[T0 |-> Fin(80), P0 |-> Fin(30000), X |-> 7, Y |-> 3],
   [T0 |-> Fin(10), P0 |-> Fin(100), X |-> 0, Y |-> 3],
   [T0 |-> Fin(10), P0 |-> Fin(100000), X |-> 12, Y |-> 3],
   [T0 |-> Fin(0), P0 |-> Fin(30000), X |-> 7, Y |-> 3],
   [T0 |-> Fin(20), P0 |-> Fin(-300), X |-> -1, Y |-> 9]}

\* lst.append(x), for a list held as a function on 0..len(lst) - 1.
AppendTo(lst, x) ==
  LET n == Cardinality(DOMAIN lst)
  IN  [j \in 0..n |-> IF j = n THEN x ELSE lst[j]]

\* One-entry list.
ListOf(x) == [j \in {0} |-> x]

\* The appending driver up to its loop: every sequence holds step 0.
AppendSetupOf(f) ==
  LET mb   == calc_mbar(f.X, f.Y)
      step == FAdd(Linspace(1), FNeg(Linspace(0)))
      rho0 == calc_rho(f.P0, f.T0, mb)
  IN  [f |-> [f EXCEPT !.pc = "loop", !.mbar = mb, !.dr = step],
       ar |-> [r |-> ListOf(Shift(Linspace(0), step)),
               M |-> ListOf(Fin(0)),
               P |-> ListOf(f.P0),
               T |-> ListOf(f.T0),
               L |-> ListOf(Fin(0)),
               rho |-> ListOf(rho0),
               kappa |-> ListOf(calc_kappa(f.X)),
               epsilon |-> ListOf(calc_epsilon(rho0, f.T0, f.X))]]

\* One iteration of the appending driver: the step is computed from the
\* last entries, appended to every sequence, then tested.
AppendStepOf(f, ar) ==
  LET n == f.i + 1
      Appended(adv) ==
        Assign(calc_rho(adv.P, adv.T, f.mbar), LAMBDA rhon :
          [r |-> AppendTo(ar.r, Shift(Linspace(n), f.dr)),
           M |-> AppendTo(ar.M, adv.M),
           P |-> AppendTo(ar.P, adv.P),
           T |-> AppendTo(ar.T, adv.T),
           L |-> AppendTo(ar.L, adv.L),
           rho |-> AppendTo(ar.rho, rhon),
           kappa |-> AppendTo(ar.kappa, calc_kappa(f.X)),
           epsilon |-> AppendTo(ar.epsilon, calc_epsilon(rhon, adv.T, f.X))])
      Tested(arn) ==
        LET stop == SurfaceTest(arn.P, arn.T, arn.rho, n) \/ ~MoreSteps(n)
        IN  [f |-> [f EXCEPT !.i = n,
                             !.pc = IF stop THEN "report" ELSE "loop"],
             ar |-> arn]
  IN  Assign(Assign(AdvanceOf(f, ar, n), Appended), Tested)

\* The appending driver's end: the sequences are returned as they are.
AppendFinishOf(f, ar) ==
  [f EXCEPT !.pc = "done",
            !.printed = [r_star |-> Format3e(ar.r[f.i]),
                         M_star |-> Format3e(ar.M[f.i]),
                         L_star |-> Format3e(ar.L[f.i])],
            !.ret = ar]

\* Run 1 is make_star, run 2 the appending driver, on the same inputs.
InitBoth ==
  /\ \E inp \in BothInputs : frames = [p \in Runs |-> FrameOf(inp)]
  /\ heap = [p \in Runs |-> NoTuple]
  /\ pc = "both"
  /\ tdArgs = NoArgs /\ tdRes = Fin(0)
  /\ T0 = Fin(0) /\ P0 = Fin(0) /\ X = 0 /\ Y = 0
  /\ mbar = Fin(0) /\ dr = Fin(0)
  /\ r = Unbound /\ M = Unbound /\ P = Unbound /\ T = Unbound
  /\ L = Unbound /\ rho = Unbound /\ kappa = Unbound /\ epsilon = Unbound
  /\ i = 0
  /\ printed = NoPrint
  /\ ret = NoTuple

AppendSetup ==
  /\ frames[2].pc = "call"
  /\ LET nx == AppendSetupOf(frames[2])
     IN  /\ frames' = [frames EXCEPT ![2] = nx.f]
         /\ heap' = [heap EXCEPT ![2] = nx.ar]
  /\ UNCHANGED SoloVars

AppendStep ==
  /\ frames[2].pc = "loop"
  /\ LET nx == AppendStepOf(frames[2], heap[2])
     IN  /\ frames' = [frames EXCEPT ![2] = nx.f]
         /\ heap' = [heap EXCEPT ![2] = nx.ar]
  /\ UNCHANGED SoloVars

AppendFinish ==
  /\ frames[2].pc = "report"
  /\ frames' = [frames EXCEPT ![2] = AppendFinishOf(frames[2], heap[2])]
  /\ UNCHANGED heap
  /\ UNCHANGED SoloVars

NextBoth ==
  \/ ParSetup(1) \/ ParStep(1) \/ ParFinish(1)
  \/ AppendSetup \/ AppendStep \/ AppendFinish

SpecBoth == InitBoth /\ [][NextBoth]_vars

\* ----------------------------------------------------------- properties
NonPositive(x) == FLe(x, Fin(0))
Positive(x) == FGt(x, Fin(0))

\* The surface condition at step j of the working arrays.
CondAt(j) == NonPositive(P[j]) \/ NonPositive(T[j]) \/ NonPositive(rho[j])

\* Step j of the working arrays still holds the zeros of np.zeros.
Untouched(j) ==
  /\ M[j] = Fin(0) /\ P[j] = Fin(0) /\ T[j] = Fin(0) /\ L[j] = Fin(0)
  /\ rho[j] = Fin(0) /\ kappa[j] = Fin(0) /\ epsilon[j] = Fin(0)

\* X or Y outside [0, 1], or X + Y > 1.
InvalidComposition ==
  X < 0 \/ X > FracDen \/ Y < 0 \/ Y > FracDen \/ X + Y > FracDen

NonPhysicalBoundary == NonPositive(T0) \/ NonPositive(P0)

\* The inputs the documentation of make_star has in mind.
ValidInputs == ~InvalidComposition /\ ~NonPhysicalBoundary

Running == pc \in {"loop", "report", "done"}
Stopped == pc \in {"report", "done"}

\* C1: stepping stops at the smallest index i >= 1 at which P_i <= 0 or
\* T_i <= 0 or rho_i <= 0.  No earlier step met the condition; the loop goes
\* on only after a step that did not meet it; once stopped before the end of
\* the grid the last step met it; that step is kept in the result; and no
\* step after it was computed (its entries are still zero).
C1_StopsAtFirstSurface ==
  Running =>
    /\ \A j \in 1..(i - 1) : ~CondAt(j)
    /\ (pc = "loop" /\ i >= 1) => ~CondAt(i)
    /\ (Stopped /\ i < nstep - 1) => CondAt(i)
    /\ Stopped => i >= 1
    /\ \A j \in (i + 1)..(nstep - 1) : Untouched(j)
    /\ pc = "done" => i \in DOMAIN ret.P

C1_Witness ==
  pc = "done" /\ i >= 3 /\ i < nstep - 1 /\ CondAt(i) /\ Positive(rho[i - 1])

\* C2 as stated: at every retained step of the returned profile P > 0,
\* T > 0 and rho > 0.  Checked on the runs with valid inputs, so that a
\* violation does not rest on a boundary value that was never positive.
C2_AllRetainedPositive ==
  (pc = "done" /\ ValidInputs) =>
    \A j \in DOMAIN ret.P :
      Positive(ret.P[j]) /\ Positive(ret.T[j]) /\ Positive(ret.rho[j])

\* C2 as amended: at every retained step strictly between step 0 and the
\* last retained step none of P <= 0, T <= 0, rho <= 0 holds; the last
\* retained step of a run that stopped before the end of the grid is the one
\* that met the condition.
C2_InnerStepsPassTest ==
  pc = "done" =>
    LET last == Cardinality(DOMAIN ret.P) - 1
    IN  /\ \A j \in 1..(last - 1) :
             /\ ~NonPositive(ret.P[j])
             /\ ~NonPositive(ret.T[j])
             /\ ~NonPositive(ret.rho[j])
        /\ last < nstep - 1 =>
             \/ NonPositive(ret.P[last])
             \/ NonPositive(ret.T[last])
             \/ NonPositive(ret.rho[last])

C2_Witness ==
  /\ pc = "done"
  /\ Cardinality(DOMAIN ret.P) = 5
  /\ \A j \in 0..3 :
       Positive(ret.P[j]) /\ Positive(ret.T[j]) /\ Positive(ret.rho[j])
  /\ NonPositive(ret.P[4])

\* C3: the eight returned sequences have the same length i_last + 1 and hold
\* exactly the entries 0..i_last of the working arrays, in order.
Working(f) ==
  CASE f = "r" -> r [] f = "M" -> M [] f = "P" -> P [] f = "T" -> T
    [] f = "L" -> L [] f = "rho" -> rho [] f = "kappa" -> kappa
    [] OTHER -> epsilon

C3_TruncatedToLast ==
  pc = "done" =>
    \A f \in Fields :
      /\ DOMAIN ret[f] = 0..i
      /\ \A j \in 0..i : ret[f][j] = Working(f)[j]

C3_Witness ==
  pc = "done" /\ i = 3 /\ DOMAIN ret.epsilon = 0..3 /\ ret.M[3] # Fin(0)

ReportedOutcome ==
  IF "outcome" \in DOMAIN ret THEN "tagged"
  ELSE IF DOMAIN printed # {"r_star", "M_star", "L_star"} THEN "printed"
  ELSE "none"

\* C5: a run whose loop completes all steps without the surface condition
\* holding reports an outcome (GridExhausted) distinct from SurfaceReached.
\* Checked on the runs with valid inputs.
C5_GridExhaustedReported ==
  (pc = "done" /\ ValidInputs /\ \A j \in 1..i : ~CondAt(j)) =>
    ReportedOutcome # "none"

\* C6: when the surface condition holds at no computed step, the run ends at
\* index nstep - 1 and returns all nstep steps, each one computed from the
\* step before it.
C6_ExhaustedRunIsComplete ==
  (pc = "done" /\ \A j \in 1..i : ~CondAt(j)) =>
    /\ i = nstep - 1
    /\ \A f \in Fields : DOMAIN ret[f] = 0..(nstep - 1)
    /\ \A j \in 1..(nstep - 1) :
         /\ ret.M[j] = Advance(j).M
         /\ ret.P[j] = Advance(j).P
         /\ ret.T[j] = Advance(j).T
         /\ ret.L[j] = Advance(j).L
         /\ ret.rho[j] = calc_rho(ret.P[j], ret.T[j], mbar)

C6_Witness ==
  /\ pc = "done"
  /\ \A j \in 1..i : ~CondAt(j)
  /\ Positive(P[i]) /\ Positive(T[i]) /\ Positive(rho[i])
  /\ Positive(M[i])

\* Nothing of a run has happened: no array exists, nothing was printed or
\* returned.
NothingDone ==
  /\ pc = "call"
  /\ i = 0
  /\ M = Unbound /\ P = Unbound /\ T = Unbound /\ L = Unbound
  /\ rho = Unbound /\ kappa = Unbound /\ epsilon = Unbound
  /\ ret = NoTuple

\* C7: a call with an invalid composition is rejected before integration
\* starts: no step is computed, no array written, no profile returned.
C7_InvalidCompositionRejected == InvalidComposition => NothingDone

\* C8: a call with T0 <= 0 or P0 <= 0 is rejected before integration starts:
\* step 0 is never initialised, no step computed, no profile returned.
C8_NonPhysicalBoundaryRejected == NonPhysicalBoundary => NothingDone

AllFinite(j) ==
  /\ IsFin(ret.M[j]) /\ IsFin(ret.P[j]) /\ IsFin(ret.T[j]) /\ IsFin(ret.L[j])
  /\ IsFin(ret.rho[j]) /\ IsFin(ret.kappa[j]) /\ IsFin(ret.epsilon[j])

\* C9: once a quantity becomes non-finite the run ends abnormally and the
\* returned profile ends at the last step whose quantities were all finite,
\* so every returned step is finite.  Stated for valid inputs (a valid
\* composition, T0 > 0, P0 > 0), for which step 0 is finite.
C9_ProfileEndsAtLastFinite ==
  (pc = "done" /\ ValidInputs) => \A j \in DOMAIN ret.M : AllFinite(j)

\* The magnitude of a float that is not NaN.
Mag(x) == Rank(FAbs(x))

TdRad ==
  T_deriv_rad(tdArgs.r, tdArgs.L, tdArgs.kappa, tdArgs.rho, tdArgs.T)

TdConv == T_deriv_conv(tdArgs.T, tdArgs.P, tdArgs.dPdr)

TdSteeper == ~IsNaN(TdRad) /\ ~IsNaN(TdConv) /\ Mag(TdRad) > Mag(TdConv)

\* C10: T_deriv returns the convective value when |dTdr_rad| > |dTdr_conv|
\* and the radiative value otherwise, equal magnitudes included.
C10_SelectorRule ==
  pc = "td_done" =>
    /\ TdSteeper => tdRes = TdConv
    /\ ~TdSteeper => tdRes = TdRad

C10_Witness ==
  /\ pc = "td_done"
  /\ IsFin(TdRad) /\ IsFin(TdConv)
  /\ Mag(TdRad) = Mag(TdConv)
  /\ TdRad # TdConv
  /\ tdRes = TdRad

\* ------------------------------------------------------------- the grid
\* The step of np.linspace(0, rmax, nstep).
GridStep == FDiv(Fin(rmax), Fin(nstep - 1))

\* C11: the radial grid has exactly nstep points, consecutive points are
\* dr = rmax / (nstep - 1) apart, the first point is dr / 2, and every grid
\* radius is strictly positive.
C11_GridUniformPositive ==
  Running =>
    /\ DOMAIN r = 0..(nstep - 1)
    /\ dr = GridStep
    /\ FAdd(r[0], r[0]) = dr
    /\ \A j \in 0..(nstep - 2) : FAdd(r[j + 1], FNeg(r[j])) = dr
    /\ \A j \in DOMAIN r : Positive(r[j])

C11_Witness ==
  /\ pc = "loop" /\ i = 2
  /\ Positive(dr)
  /\ r[0] # Fin(0)
  /\ FAdd(r[2], FNeg(r[1])) = dr

\* C12 as stated: the last grid point is rmax - dr / 2.
C12_LastPointBelowRmax ==
  Running => FAdd(r[nstep - 1], FDiv(dr, Fin(2))) = Fin(rmax)

\* C12: np.linspace includes its endpoint, so the last point of the shifted
\* grid is rmax + dr / 2.
C12_LastPointAboveRmax ==
  Running => r[nstep - 1] = FAdd(Fin(rmax), FDiv(dr, Fin(2)))

C12_Witness ==
  /\ pc = "done"
  /\ FGt(r[nstep - 1], Fin(rmax))
  /\ FAdd(r[nstep - 1], FNeg(r[nstep - 2])) = dr

\* ------------------------------------------------------- the Euler step
\* value + derivative * dr
Euler(prev, deriv) == FAdd(prev, FMul(deriv, dr))

\* Step j of the working arrays is the explicit Euler step from step j - 1.
EulerFrom(j) ==
  LET q    == j - 1
      dPdr == P_deriv(r[q], M[q], rho[q])
  IN  /\ M[j] = Euler(M[q], M_deriv(r[q], rho[q]))
      /\ P[j] = Euler(P[q], dPdr)
      /\ T[j] = Euler(T[q], T_deriv(r[q], L[q], kappa[q], rho[q], T[q], P[q],
                                    dPdr))
      /\ L[j] = Euler(L[q], L_deriv(r[q], rho[q], epsilon[q]))

\* rho, kappa and epsilon of step j come from the P and T of step j.
StateFrom(j) ==
  /\ rho[j] = calc_rho(P[j], T[j], mbar)
  /\ kappa[j] = calc_kappa(X)
  /\ epsilon[j] = calc_epsilon(rho[j], T[j], X)

\* C13: at every step i >= 1, M, P, T and L are value + derivative * dr with
\* the derivatives taken from the state at step i - 1; rho, kappa and epsilon
\* are then computed from the new P and T; and the surface test that ended
\* the loop early saw the step with all seven quantities written.
C13_StepOrder ==
  Running =>
    /\ \A j \in 1..i : EulerFrom(j) /\ StateFrom(j)
    /\ (Stopped /\ i < nstep - 1) => (CondAt(i) /\ StateFrom(i))

C13_Witness ==
  /\ pc = "loop" /\ i = 3
  /\ EulerFrom(3) /\ StateFrom(3)
  /\ P[3] # P[2] /\ T[3] # T[2] /\ M[3] # M[2] /\ L[3] # L[2]
  /\ rho[3] # rho[2]
  /\ AdvanceMidStep(3).T # T[3]

\* --------------------------------------------------------- monotonicity
\* C14: in every run with valid inputs, over the retained steps M is
\* non-decreasing and P and T are non-increasing as the index increases.
C14_Monotone ==
  (pc = "done" /\ ValidInputs) =>
    \A j \in 1..i :
      /\ FLe(ret.M[j - 1], ret.M[j])
      /\ FLe(ret.P[j], ret.P[j - 1])
      /\ FLe(ret.T[j], ret.T[j - 1])

\* -------------------------------------------------------------- density
\* C15: for mbar > 0 the density is strictly positive whenever P > 0 and
\* T > 0, so at a computed step rho <= 0 holds only where P <= 0 or T <= 0
\* holds too.
C15_DensityPositive ==
  (Running /\ Positive(mbar)) =>
    /\ \A j \in 0..i :
         (Positive(P[j]) /\ Positive(T[j])) => Positive(rho[j])
    /\ \A j \in 1..i :
         NonPositive(rho[j]) => (NonPositive(P[j]) \/ NonPositive(T[j]))

\* -------------------------------------------------------------- opacity
\* C16: within a run kappa has the same value at every retained step, the
\* value computed once from X at step 0, whatever r, rho and T are there; and
\* over the valid hydrogen fractions it is strictly increasing in X.
C16_OpacityConstant ==
  /\ pc = "done" =>
       \A j \in DOMAIN ret.kappa :
         ret.kappa[j] = ret.kappa[0] /\ ret.kappa[0] = calc_kappa(X)
  /\ \A x1, x2 \in 0..FracDen :
       x1 < x2 => FGt(calc_kappa(x2), calc_kappa(x1))

C16_Witness ==
  /\ pc = "done" /\ i >= 3
  /\ Positive(ret.kappa[0])
  /\ ret.kappa[i] = ret.kappa[0]
  /\ ret.rho[i] # ret.rho[0] /\ ret.T[i] # ret.T[0] /\ ret.T[2] # ret.T[0]

\* ------------------------------------------------------ independent runs
\* A call of make_star executed alone, from its first statement to its return.
RECURSIVE SoloLoop(_, _)
SoloLoop(f, ar) ==
  IF f.pc = "loop"
  THEN LET nx == StepOf(f, ar) IN SoloLoop(nx.f, nx.ar)
  ELSE FinishOf(f, ar)

Solo(inp) == LET st == SetupOf(FrameOf(inp)) IN SoloLoop(st.f, st.ar)

InputsOf(f) == [T0 |-> f.T0, P0 |-> f.P0, X |-> f.X, Y |-> f.Y]

\* The run of the single-call specification is the run Solo computes.
SoloAgrees ==
  pc = "done" =>
    LET alone == Solo([T0 |-> T0, P0 |-> P0, X |-> X, Y |-> Y])
    IN  ret = alone.ret /\ printed = alone.printed /\ i = alone.i

\* C17: two runs whose steps are interleaved in any order each return the
\* profile and print the summary they return and print when executed alone.
C17_RunsIndependent ==
  \A p \in Runs :
    frames[p].pc = "done" =>
      LET alone == Solo(InputsOf(frames[p]))
      IN  /\ frames[p].ret = alone.ret
          /\ frames[p].printed = alone.printed

C17_Witness ==
  /\ frames[1].pc = "done" /\ frames[2].pc = "loop" /\ frames[2].i = 2
  /\ frames[1].T0 # frames[2].T0
  /\ frames[1].i >= 3
  /\ heap[1].P[2] # heap[2].P[2]
  /\ frames[1].ret = Solo(InputsOf(frames[1])).ret

\* ---------------------------------------------------------- termination
\* C18: a run that starts stepping ends after at most nstep - 1 iterations
\* of the loop, and the loop ends before iteration nstep - 1 only by the
\* surface test of the step just computed.
C18_Terminates ==
  /\ [](Running => i <= nstep - 1)
  /\ []((Stopped /\ i < nstep - 1) => (i >= 1 /\ CondAt(i)))
  /\ (pc = "loop" ~> pc = "done")

C18_Witness ==
  /\ pc = "report" /\ i = 2
  /\ NonPositive(P[2])
  /\ Untouched(3)

\* ------------------------------------------------- signs of the gradients
\* The two candidates T_deriv chooses between when the driver steps on
\* from step j.
RadAt(j) == T_deriv_rad(r[j], L[j], kappa[j], rho[j], T[j])
ConvAt(j) == T_deriv_conv(T[j], P[j], P_deriv(r[j], M[j], rho[j]))

Negative(x) == FGt(Fin(0), x)

FMin(x, y) ==
  IF IsNaN(x) \/ IsNaN(y) THEN NaN ELSE IF FLe(x, y) THEN x ELSE y

\* C20 as stated: for all inputs the gradient T_deriv returns is one of the
\* two candidates, its magnitude is min(|dTdr_rad|, |dTdr_conv|) and exceeds
\* neither candidate's magnitude.
C20_MinMagnitudeAlways ==
  pc = "td_done" =>
    /\ tdRes \in {TdRad, TdConv}
    /\ FAbs(tdRes) = FMin(FAbs(TdRad), FAbs(TdConv))
    /\ FLe(FAbs(tdRes), FAbs(TdRad)) /\ FLe(FAbs(tdRes), FAbs(TdConv))

\* C20: the gradient T_deriv returns is one of the two candidates; when
\* neither candidate is NaN its magnitude is the smaller of the two
\* magnitudes; when one is NaN the radiative candidate is returned, NaN or
\* not.
C20_MinMagnitude ==
  pc = "td_done" =>
    /\ tdRes \in {TdRad, TdConv}
    /\ (~IsNaN(TdRad) /\ ~IsNaN(TdConv)) =>
         /\ FAbs(tdRes) = FMin(FAbs(TdRad), FAbs(TdConv))
         /\ Mag(tdRes) <= Mag(TdRad) /\ Mag(tdRes) <= Mag(TdConv)
    /\ (IsNaN(TdRad) \/ IsNaN(TdConv)) => tdRes = TdRad

C20_Witness ==
  /\ pc = "td_done"
  /\ IsFin(TdRad) /\ IsFin(TdConv)
  /\ Mag(TdRad) > Mag(TdConv) /\ Mag(TdConv) > 0
  /\ tdRes = TdConv

\* ------------------------------------------------------- the first step
\* C21: step 0 has M = 0 and L = 0, so the first Euler step leaves P and T
\* unchanged, and for T0 > 0 and P0 > 0 the surface is not detected at
\* step 1: every returned profile ends at an index >= 2.  Checked on the
\* runs with valid inputs.
C21_FirstStepKeepsPT ==
  (pc = "done" /\ ValidInputs) =>
    /\ ret.P[1] = P0 /\ ret.T[1] = T0
    /\ i >= 2

\* ----------------------------------------------- what the test looks at
\* P, T and rho of step j are all positive.
AllPositive(j) == Positive(P[j]) /\ Positive(T[j]) /\ Positive(rho[j])

\* C22: the surface test reads P, T and rho of the step only: at a step
\* before the last grid point where the three are positive the loop goes on
\* to the next step, whatever M, L and epsilon are there.
C22_TestReadsOnlyPTRho ==
  (Running /\ i >= 1 /\ i < nstep - 1 /\ AllPositive(i)) => pc = "loop"

C22_Witness ==
  /\ pc = "loop" /\ i = 1
  /\ AllPositive(1)
  /\ L[1] = PInf /\ epsilon[1] = PInf

\* ------------------------------------------- appending and pre-sizing
\* C23: the appending driver and the pre-sizing, slicing driver return
\* identical profiles for the same inputs, and in neither does the caller
\* see an entry beyond the last computed step.
C23_AppendEqualsPresize ==
  /\ \A p \in Runs :
       frames[p].pc = "done" =>
         \A n \in Fields : DOMAIN frames[p].ret[n] = 0..frames[p].i
  /\ (frames[1].pc = "done" /\ frames[2].pc = "done") =>
       /\ frames[1].ret = frames[2].ret
       /\ frames[1].i = frames[2].i
       /\ frames[1].printed = frames[2].printed

C23_Witness ==
  /\ frames[1].pc = "done" /\ frames[2].pc = "done"
  /\ frames[1].i >= 2 /\ frames[1].i < nstep - 1
  /\ DOMAIN heap[1].P = 0..(nstep - 1)
  /\ DOMAIN heap[2].P = 0..frames[2].i
  /\ frames[2].ret.P[frames[2].i] # Fin(0)
====
